---- MODULE Spec2Model ----
(***************************************************************************)
(* Model of context_engine/src/context_engine.py: the POST /api/lesson     *)
(* handler get_language_lesson, the module-level provider configuration    *)
(* and the LanguageLesson schema.  Several requests are handled            *)
(* concurrently (thread per request); each request runs the handler's      *)
(* steps in order.                                                         *)
(***************************************************************************)
EXTENDS Integers, Sequences, FiniteSets, TLC

\* Number of requests in flight at once.
NumRequests == 2

Requests == 1..NumRequests

-----------------------------------------------------------------------------
(* Values *)

\* Python's None, for os.environ.get of an unset variable.
None == "<None>"

\* Values a JSON field can hold: a string or a number.
Str(s) == [t |-> "str", v |-> s]
Num(s) == [t |-> "num", v |-> s]
Absent == [t |-> "absent", v |-> ""]

\* Parsed JSON bodies, as request.get_json() returns them.
\*   kind    : null | object | array | number
\*   truthy  : Python truth value of the parsed value
\*   members : the x for which `x in data` is True (keys of an object,
\*             elements of an array)
\*   word, foreignLanguage : data[...] of an object
Body(k, tr, mem, w, fl) ==
    [kind |-> k, truthy |-> tr, members |-> mem, word |-> w, foreignLanguage |-> fl]

Obj(w, fl) ==
    Body("object", w # Absent \/ fl # Absent,
         (IF w # Absent THEN {"word"} ELSE {}) \cup
         (IF fl # Absent THEN {"foreignLanguage"} ELSE {}),
         w, fl)

NoBody == Body("none", FALSE, {}, Absent, Absent)

Bodies ==
    { Body("null", FALSE, {}, Absent, Absent),                       \* null
      Obj(Absent, Absent),                                           \* {}
      Obj(Str("hello"), Absent),                                     \* only word
      Obj(Absent, Str("Spanish")),                                   \* only foreignLanguage
      Body("array", FALSE, {}, Absent, Absent),                      \* []
      Body("array", TRUE, {"word", "foreignLanguage"}, Absent, Absent),
      Body("number", TRUE, {}, Absent, Absent),                      \* 5
      Obj(Str("hello"), Str("Spanish")),
      Obj(Str("benkyou"), Str("Japanese")),
      Obj(Str("benkyou"), Str("japanese")),
      Obj(Num("5"), Str("Spanish")) }

\* Values of the two credential environment variables.
OpenRouterKeys == {None, "", "sk-or-secret"}
GeminiKeys == {None, "", "AIza-secret"}

Configs ==
    [ OPENROUTER_API_KEY : OpenRouterKeys,
      OPENROUTER_MODEL_NAME : {"google/gemini-flash-1.5"},
      GEMINI_API_KEY : GeminiKeys,
      GEMINI_MODEL_NAME : {"gemini-1.5-flash-latest"},
      OLLAMA_BASE_URL : {"http://localhost:11434"},
      OLLAMA_MODEL_NAME : {"gemma3:4b-it-qat"} ]

\* Python truth value of an environment value: None and "" are false.
Truthy(k) == k # None /\ k # ""

-----------------------------------------------------------------------------
(* Lesson schema *)

LanguageLesson ==
    {"directTranslation", "relatedVocabulary", "practicalUsage", "advancedContent"}


\* The model outputs a provider can return: text that is not JSON, or a JSON
\* object carrying some of the schema's fields.
RawOutput(j, f, t) == [json |-> j, fields |-> f, text |-> t]

NoRaw == RawOutput(FALSE, {}, "")

RawOutputs ==
    { RawOutput(FALSE, {}, "Sure! Here is your lesson"),
      RawOutput(TRUE, LanguageLesson, "{full lesson}"),
      RawOutput(TRUE, LanguageLesson \ {"advancedContent"}, "{lesson without advancedContent}"),
      RawOutput(TRUE, {}, "{}") }

\* LanguageLesson(**value): pydantic validation, every field is required.
ValidLesson(raw) == raw.json /\ LanguageLesson \subseteq raw.fields

-----------------------------------------------------------------------------
(* Exceptions and responses *)

Exc(c, t) == [cls |-> c, text |-> t]

NoExc == Exc("", <<>>)

Response(st, by, err, has, lesson) ==
    [status |-> st, by |-> by, error |-> err, hasLesson |-> has, lesson |-> lesson]

NoResponse == Response(0, "", <<>>, FALSE, {})

\* jsonify({"error": message}), status
ErrorResponse(st, msg) == Response(st, "handler", msg, FALSE, {})

\* jsonify(lesson), 200
LessonResponse(fields) == Response(200, "handler", <<>>, TRUE, fields)

\* An exception that leaves the view function: Flask answers 500 itself.
FrameworkError == Response(500, "framework", <<"Internal Server Error">>, FALSE, {})

MissingFieldsMessage == <<"Missing 'word' or 'foreignLanguage' in request body">>

NoProviderMessage ==
    <<"No LLM provider is configured. Please set an API key or ensure Ollama is running.">>

\* The f-string of the except block.
ErrorMessageText(prov, mname, e) ==
    << "Failed to generate lesson with ", prov, " using model '", mname,
       "'. Please check your API keys and model configuration. Error: " >> \o e.text

Contains(text, s) == \E i \in DOMAIN text : text[i] = s

-----------------------------------------------------------------------------
(* Prompt *)

JapaneseRule ==
    "--- Special Instructions for Japanese --- ... use the JSON object structure lm, lrm, lt ..."

\* Variant: the system prompt without the Japanese block.
SYSTEM_PROMPT_NoJapaneseBlock ==
    << "You are an expert language tutor. ... generate a comprehensive language lesson ...",
       "You MUST respond with a single, valid JSON object ... Do NOT add any commentary ..." >>

SYSTEM_PROMPT ==
    << "You are an expert language tutor. ... generate a comprehensive language lesson ...",
       "You MUST respond with a single, valid JSON object ... Do NOT add any commentary ...",
       JapaneseRule >>

Message(role, text) == [role |-> role, text |-> text]

SystemMessage == Message("system", SYSTEM_PROMPT)

HumanMessage ==
    Message("human",
            << "Generate a language lesson for the word/phrase '", "{word}",
               "' from ", "{home_language}", " to ", "{foreign_language}", "." >>)

\* parser.get_format_instructions() of JsonOutputParser(pydantic_object=LanguageLesson)
FormatInstructions == "format_instructions(LanguageLesson)"

FormatMessage == Message("system", <<"JSON Output Format:\n", FormatInstructions>>)

\* ChatPromptTemplate.from_messages([...]) of each provider's branch.
PromptOpenRouter == <<SystemMessage, HumanMessage, FormatMessage>>

\* Variant: the Gemini branch also appends the format instructions.
PromptGemini_WithFormat == <<SystemMessage, HumanMessage, FormatMessage>>

PromptGemini == <<SystemMessage, HumanMessage>>

PromptOllama == <<SystemMessage, HumanMessage, FormatMessage>>

PromptFor(prov) ==
    CASE prov = "OpenRouter" -> PromptOpenRouter
      [] prov = "Google Gemini" -> PromptGemini
      [] prov = "Ollama" -> PromptOllama
      [] OTHER -> <<>>

\* str.format of one message with the invoke() inputs.
FormatText(text, vars) ==
    [i \in DOMAIN text |-> IF text[i] \in DOMAIN vars THEN vars[text[i]] ELSE text[i]]

FormatPrompt(prompt, vars) ==
    [i \in DOMAIN prompt |-> Message(prompt[i].role, FormatText(prompt[i].text, vars))]


-----------------------------------------------------------------------------
(* Provider selection and the chain *)

\* Variant: the two cloud branches in the other order.
SelectProvider_GeminiFirst(cfg) ==
    IF Truthy(cfg.GEMINI_API_KEY) THEN "Google Gemini"
    ELSE IF Truthy(cfg.OPENROUTER_API_KEY) THEN "OpenRouter"
    ELSE "Ollama"

\* Variant: no final else, provider stays "N/A" when neither key is set.
SelectProvider_NoLocalFallback(cfg) ==
    IF Truthy(cfg.OPENROUTER_API_KEY) THEN "OpenRouter"
    ELSE IF Truthy(cfg.GEMINI_API_KEY) THEN "Google Gemini"
    ELSE "N/A"

\* The if / elif / else of the handler over the two keys.
SelectProvider(cfg) ==
    IF Truthy(cfg.OPENROUTER_API_KEY) THEN "OpenRouter"
    ELSE IF Truthy(cfg.GEMINI_API_KEY) THEN "Google Gemini"
    ELSE "Ollama"

\* model_name_in_use of the branch taken.
ModelNameFor(cfg, prov) ==
    CASE prov = "OpenRouter" -> cfg.OPENROUTER_MODEL_NAME
      [] prov = "Google Gemini" -> cfg.GEMINI_MODEL_NAME
      [] prov = "Ollama" -> cfg.OLLAMA_MODEL_NAME
      [] OTHER -> "N/A"

\* The credential handed to the adapter of the branch taken.
KeyFor(cfg, prov) ==
    CASE prov = "OpenRouter" -> cfg.OPENROUTER_API_KEY
      [] prov = "Google Gemini" -> cfg.GEMINI_API_KEY
      [] OTHER -> None

\* The step after the prompt: JsonOutputParser for OpenRouter and Ollama,
\* with_structured_output(LanguageLesson) for Gemini.
OutputStepFor(prov) ==
    CASE prov = "OpenRouter" -> "JsonOutputParser"
      [] prov = "Google Gemini" -> "with_structured_output"
      [] prov = "Ollama" -> "JsonOutputParser"
      [] OTHER -> ""

Chain(prompt, llm, mname, out) ==
    [prompt |-> prompt, llm |-> llm, model |-> mname, output |-> out]

\* chain = None
NoChain == Chain(<<>>, "", "", "")

\* chain = prompt | model | parser, or prompt | structured_llm
ChainFor(cfg, prov) ==
    IF prov \in {"OpenRouter", "Google Gemini", "Ollama"}
    THEN Chain(PromptFor(prov), prov, ModelNameFor(cfg, prov), OutputStepFor(prov))
    ELSE NoChain

\* What the output step makes of the provider's reply: a value or an exception.
Result(ok, fields, isModel, e) ==
    [ok |-> ok, fields |-> fields, isModel |-> isModel, exc |-> e]

\* JsonOutputParser.parse: json-decodes the text and returns the dict as it is.
JsonOutputParser(raw) ==
    IF raw.json
    THEN Result(TRUE, raw.fields, FALSE, NoExc)
    ELSE Result(FALSE, {}, FALSE,
                Exc("OutputParserException", <<"Invalid json output: ", raw.text>>))

\* with_structured_output(LanguageLesson): a LanguageLesson instance, or the
\* validation error.
StructuredOutput(raw) ==
    IF ValidLesson(raw)
    THEN Result(TRUE, raw.fields, TRUE, NoExc)
    ELSE Result(FALSE, {}, TRUE,
                Exc("ValidationError", <<"validation errors for LanguageLesson: ", raw.text>>))

OutputStep(chain, raw) ==
    IF chain.output = "with_structured_output" THEN StructuredOutput(raw)
    ELSE JsonOutputParser(raw)

\* What a provider call can do: return a model output or raise.
Outcome(raised, e, raw) == [raised |-> raised, exc |-> e, raw |-> raw]

ProviderErrors(key) ==
    {Exc("TimeoutError", <<"Request timed out.">>)} \cup
    (IF Truthy(key)
     THEN {Exc("AuthenticationError", <<"Incorrect API key provided: ", key>>)}
     ELSE {})

ProviderOutcomes(key) ==
    {Outcome(TRUE, e, NoRaw) : e \in ProviderErrors(key)} \cup
    {Outcome(FALSE, NoExc, raw) : raw \in RawOutputs}

\* Adapter construction (ChatOpenRouter / ChatGemini / ChatOllama __init__:
\* the lazy import and the client's constructor) succeeds or raises.
ConstructionErrors == {Exc("ImportError", <<"No module named the provider package">>)}

\* One provider call, as the chain makes it.
Call(chain, prompt) == [provider |-> chain.llm, model |-> chain.model, prompt |-> prompt]

\* Variant: a failed call or a failed output step is tried a second time.
CallsMade_Retry(cfg, chain, prompt, outcome) ==
    IF outcome.raised \/ ~OutputStep(chain, outcome.raw).ok
    THEN <<Call(chain, prompt), Call(chain, prompt)>>
    ELSE <<Call(chain, prompt)>>

\* The provider calls chain.invoke makes for one request.
CallsMade(cfg, chain, prompt, outcome) == <<Call(chain, prompt)>>


-----------------------------------------------------------------------------
(* State *)

VARIABLES
    config,             \* the module-level configuration read at import
    pc,                 \* where each request's handler stands
    data,               \* request.get_json() of each request
    word,               \* locals of get_language_lesson, per request
    foreign_language,
    provider,
    model_name_in_use,
    chain,
    reply,              \* what the provider did when the request called it
    called,             \* the provider calls each request has made
    response            \* the HTTP response of each request

vars ==
    << config, pc, data, word, foreign_language, provider, model_name_in_use,
       chain, reply, called, response >>

home_language == "English"

NoOutcome == Outcome(FALSE, NoExc, NoRaw)

\* Variant: the name is a module-level global, one value for all requests.
SetLocal_Shared(f, r, v) == [q \in DOMAIN f |-> v]

\* An assignment to a local of the handler (data, word, foreign_language,
\* provider, model_name_in_use, chain): each request has its own frame.
SetLocal(f, r, v) == [f EXCEPT ![r] = v]

Init ==
    /\ config \in Configs
    /\ pc = [r \in Requests |-> "idle"]
    /\ data = [r \in Requests |-> NoBody]
    /\ word = [r \in Requests |-> Absent]
    /\ foreign_language = [r \in Requests |-> Absent]
    /\ provider = [r \in Requests |-> "<unbound>"]
    /\ model_name_in_use = [r \in Requests |-> "<unbound>"]
    /\ chain = [r \in Requests |-> NoChain]
    /\ reply = [r \in Requests |-> NoOutcome]
    /\ called = [r \in Requests |-> <<>>]
    /\ response = [r \in Requests |-> NoResponse]

\* `not data or 'word' not in data or 'foreignLanguage' not in data`, then
\* data['word'] and data['foreignLanguage'], in Python's evaluation order.
\*   "missing"   : the condition is true, the handler returns 400
\*   "TypeError" : `in` on a number, or a string subscript on a list
\*   "ok"        : both subscripts succeed
Validate(b) ==
    IF ~b.truthy THEN "missing"
    ELSE IF b.kind = "number" THEN "TypeError"
    ELSE IF "word" \notin b.members \/ "foreignLanguage" \notin b.members THEN "missing"
    ELSE IF b.kind # "object" THEN "TypeError"
    ELSE "ok"

\* The handler up to the try block.
Receive(r) ==
    /\ pc[r] = "idle"
    /\ \E b \in Bodies :
        /\ data' = SetLocal(data, r, b)
        /\ CASE Validate(b) = "missing" ->
                  /\ response' = [response EXCEPT ![r] = ErrorResponse(400, MissingFieldsMessage)]
                  /\ pc' = [pc EXCEPT ![r] = "done"]
                  /\ UNCHANGED <<word, foreign_language>>
             [] Validate(b) = "TypeError" ->
                  /\ response' = [response EXCEPT ![r] = FrameworkError]
                  /\ pc' = [pc EXCEPT ![r] = "done"]
                  /\ UNCHANGED <<word, foreign_language>>
             [] OTHER ->
                  /\ word' = SetLocal(word, r, b.word)
                  /\ foreign_language' = SetLocal(foreign_language, r, b.foreignLanguage)
                  /\ pc' = [pc EXCEPT ![r] = "validated"]
                  /\ UNCHANGED response
    /\ UNCHANGED <<config, provider, model_name_in_use, chain, reply, called>>

\* The except block: the 500 response naming provider and model.
HandleException(prov, mname, e) == ErrorResponse(500, ErrorMessageText(prov, mname, e))

\* Model and chain initialization: the branch of the selected provider sets
\* provider and model_name_in_use, constructs the adapter, builds the prompt
\* and composes the chain; then the `if not chain` check.
Select(r) ==
    /\ pc[r] = "validated"
    /\ LET prov == SelectProvider(config)
           mname == ModelNameFor(config, prov)
       IN  /\ provider' = SetLocal(provider, r, prov)
           /\ model_name_in_use' = SetLocal(model_name_in_use, r, mname)
           /\ \/ \E e \in ConstructionErrors :
                    /\ prov # "N/A"      \* adapters are constructed inside a branch
                    /\ response' = [response EXCEPT ![r] = HandleException(prov, mname, e)]
                    /\ pc' = [pc EXCEPT ![r] = "done"]
                    /\ UNCHANGED chain
              \/ LET ch == ChainFor(config, prov)
                 IN  /\ chain' = SetLocal(chain, r, ch)
                     /\ IF ch = NoChain
                        THEN /\ response' = [response EXCEPT ![r] = ErrorResponse(500, NoProviderMessage)]
                             /\ pc' = [pc EXCEPT ![r] = "done"]
                        ELSE /\ pc' = [pc EXCEPT ![r] = "selected"]
                             /\ UNCHANGED response
    /\ UNCHANGED <<config, data, word, foreign_language, reply, called>>

\* The inputs of chain.invoke.
InvokeInputs(r) ==
    ("{word}" :> word[r].v) @@ ("{home_language}" :> home_language) @@
    ("{foreign_language}" :> foreign_language[r].v)

\* chain.invoke and what follows: the prompt is formatted, the provider is
\* called once, its output goes through the output step, and the handler
\* answers 200 with the result or 500 from the except block.
Invoke(r) ==
    /\ pc[r] = "selected"
    /\ \E o \in ProviderOutcomes(KeyFor(config, provider[r])) :
        LET prompt == FormatPrompt(chain[r].prompt, InvokeInputs(r))
            res == IF o.raised THEN Result(FALSE, {}, FALSE, o.exc)
                   ELSE OutputStep(chain[r], o.raw)
        IN  /\ reply' = [reply EXCEPT ![r] = o]
            /\ called' = [called EXCEPT ![r] = CallsMade(config, chain[r], prompt, o)]
            /\ response' = [response EXCEPT ![r] = IF res.ok THEN LessonResponse(res.fields)
                   ELSE HandleException(provider[r], model_name_in_use[r], res.exc)]
            /\ pc' = [pc EXCEPT ![r] = "done"]
    /\ UNCHANGED <<config, data, word, foreign_language, provider, model_name_in_use, chain>>

Next == \E r \in Requests : Receive(r) \/ Select(r) \/ Invoke(r)

Spec == Init /\ [][Next]_vars


-----------------------------------------------------------------------------
(* Properties *)

Providers == {"OpenRouter", "Google Gemini", "Ollama"}

\* A credential is present when the variable is set to a non-empty value.
Present(k) == k \notin {None, ""}

\* The request has been through the selection step.
Selected(r) == provider[r] # "<unbound>"

\* C1: provider selection is a function of the two credentials only: the
\* gateway (OpenRouter) when its key is present, whatever the Gemini key;
\* Gemini when only its key is present; Ollama when neither is.  One provider
\* per request, with the model identifier configured for that provider, in
\* the locals, in the chain and in every call made.
C1_ProviderPriority ==
    \A r \in Requests :
        Selected(r) =>
            LET gw == Present(config.OPENROUTER_API_KEY)
                gm == Present(config.GEMINI_API_KEY)
            IN  /\ gw =>
                     /\ provider[r] = "OpenRouter"
                     /\ model_name_in_use[r] = config.OPENROUTER_MODEL_NAME
                /\ (~gw /\ gm) =>
                     /\ provider[r] = "Google Gemini"
                     /\ model_name_in_use[r] = config.GEMINI_MODEL_NAME
                /\ (~gw /\ ~gm) =>
                     /\ provider[r] = "Ollama"
                     /\ model_name_in_use[r] = config.OLLAMA_MODEL_NAME
                /\ chain[r] # NoChain =>
                     /\ chain[r].llm = provider[r]
                     /\ chain[r].model = model_name_in_use[r]
                /\ \A i \in DOMAIN called[r] :
                     /\ called[r][i].provider = provider[r]
                     /\ called[r][i].model = model_name_in_use[r]

\* Both keys are present and a request was sent to the gateway.
C1_Witness ==
    \E r \in Requests :
        /\ Present(config.OPENROUTER_API_KEY)
        /\ Present(config.GEMINI_API_KEY)
        /\ called[r] # <<>>
        /\ called[r][1].provider = "OpenRouter"

\* The body carries both `word` and `foreignLanguage` as string fields.
CarriesBoth(b) ==
    /\ b.kind = "object"
    /\ b.word.t = "str"
    /\ b.foreignLanguage.t = "str"

\* C2: a request whose body does not carry both a `word` and a
\* `foreignLanguage` string field is answered 400 with an error message, and
\* no provider is selected, no chain is built and no provider is called.
C2_InvalidBodyRejected ==
    \A r \in Requests :
        (pc[r] # "idle" /\ ~CarriesBoth(data[r])) =>
            /\ pc[r] = "done" =>
                 /\ response[r].status = 400
                 /\ response[r].by = "handler"
                 /\ response[r].error # <<>>
            /\ ~Selected(r)
            /\ chain[r] = NoChain
            /\ called[r] = <<>>

\* C3: a 200 response is only produced from model output that passed
\* LanguageLesson validation; output that is not JSON, or a JSON object
\* missing a schema field, ends in a 500 response on every provider path.
C3_OnlyValidatedOutput ==
    \A r \in Requests :
        (pc[r] = "done" /\ called[r] # <<>> /\ ~reply[r].raised) =>
            /\ response[r].status = 200 => ValidLesson(reply[r].raw)
            /\ ~ValidLesson(reply[r].raw) => response[r].status = 500


\* The system instruction of a prompt: the text of its first message.
SystemInstruction(prompt) ==
    IF prompt # <<>> /\ prompt[1].role = "system" THEN prompt[1].text ELSE <<>>

\* foreignLanguage equals "Japanese", case-insensitively.
IsJapanese(lang) == lang.t = "str" /\ lang.v \in {"Japanese", "japanese", "JAPANESE"}

\* C4 (as stated): the Japanese formatting rule is in the system instruction
\* of the prompt built for a request if and only if the request's
\* foreignLanguage equals "Japanese", case-insensitively.
C4_JapaneseRuleIffJapanese ==
    \A r \in Requests :
        /\ chain[r] # NoChain =>
             (Contains(SystemInstruction(chain[r].prompt), JapaneseRule)
                <=> IsJapanese(foreign_language[r]))
        /\ \A i \in DOMAIN called[r] :
             (Contains(SystemInstruction(called[r][i].prompt), JapaneseRule)
                <=> IsJapanese(foreign_language[r]))

\* C4 (amended): the Japanese formatting rule is in the system instruction of
\* the prompt built for every request, whatever its foreignLanguage and its
\* provider, both in the template of the chain and in the prompt sent.
C4_JapaneseRuleAlways ==
    \A r \in Requests :
        /\ chain[r] # NoChain =>
             Contains(SystemInstruction(chain[r].prompt), JapaneseRule)
        /\ \A i \in DOMAIN called[r] :
             Contains(SystemInstruction(called[r][i].prompt), JapaneseRule)

\* A request for Spanish was sent with the Japanese rule in its system
\* instruction.
C4_Witness ==
    \E r \in Requests :
        /\ foreign_language[r] = Str("Spanish")
        /\ called[r] # <<>>
        /\ Contains(SystemInstruction(called[r][1].prompt), JapaneseRule)

\* The prompt ends with the system message carrying the format instructions.
EndsWithFormatInstructions(prompt) ==
    /\ prompt # <<>>
    /\ prompt[Len(prompt)].role = "system"
    /\ Contains(prompt[Len(prompt)].text, FormatInstructions)

Roles(prompt) == [i \in DOMAIN prompt |-> prompt[i].role]

\* C5: the prompt of a request ends with the format-instructions message if
\* and only if the selected provider is not natively structured: present for
\* OpenRouter and Ollama, omitted for Gemini, whose prompt is exactly the
\* system instruction and the user message.
C5_FormatInstructionsIffParser ==
    \A r \in Requests :
        /\ chain[r] # NoChain =>
             /\ EndsWithFormatInstructions(chain[r].prompt)
                  <=> provider[r] \in {"OpenRouter", "Ollama"}
             /\ EndsWithFormatInstructions(chain[r].prompt)
                  <=> chain[r].output # "with_structured_output"
             /\ provider[r] = "Google Gemini" =>
                  Roles(chain[r].prompt) = <<"system", "human">>
        /\ \A i \in DOMAIN called[r] :
             /\ EndsWithFormatInstructions(called[r][i].prompt)
                  <=> called[r][i].provider \in {"OpenRouter", "Ollama"}
             /\ called[r][i].provider = "Google Gemini" =>
                  Roles(called[r][i].prompt) = <<"system", "human">>

\* Gemini was called with a two-message prompt.
C5_Witness ==
    \E r \in Requests :
        /\ called[r] # <<>>
        /\ called[r][1].provider = "Google Gemini"
        /\ Len(called[r][1].prompt) = 2
        /\ ~EndsWithFormatInstructions(called[r][1].prompt)

\* The failure classes of the error taxonomy.
Taxonomy ==
    { "NoProviderConfigured", "ProviderUnavailableError", "UpstreamInvocationFailed",
      "MalformedJsonOutput", "MalformedStructuredOutput", "SchemaValidationError" }

\* The configured credential values.
Credentials == {k \in {config.OPENROUTER_API_KEY, config.GEMINI_API_KEY} : Present(k)}

\* C6: when the pipeline fails after validation, the response is 500 with an
\* error body that names the selected provider, its model identifier and the
\* failure taxonomy class, and holds no configured credential value.
C6_ErrorBodyNamesAndHidesCredentials ==
    \A r \in Requests :
        (pc[r] = "done" /\ Selected(r) /\ response[r].status # 200) =>
            /\ response[r].status = 500
            /\ response[r].by = "handler"
            /\ Contains(response[r].error, provider[r])
            /\ Contains(response[r].error, model_name_in_use[r])
            /\ \A k \in Credentials : ~Contains(response[r].error, k)
            /\ \E t \in Taxonomy : Contains(response[r].error, t)

\* C7: a request makes at most one provider call, and exactly one once its
\* chain was built: after a failed call or a failed output step it is not
\* called again, and no other provider is called.
C7_ExactlyOneCall ==
    \A r \in Requests :
        /\ Len(called[r]) <= 1
        /\ chain[r] = NoChain => called[r] = <<>>
        /\ (pc[r] = "done" /\ chain[r] # NoChain) =>
             /\ Len(called[r]) = 1
             /\ called[r][1].provider = provider[r]
        /\ pc[r] # "done" => called[r] = <<>>

\* The gateway call failed while the Gemini key was present: one call, 500.
C7_Witness ==
    \E r \in Requests :
        /\ Present(config.GEMINI_API_KEY)
        /\ provider[r] = "OpenRouter"
        /\ reply[r].raised
        /\ response[r].status = 500
        /\ Len(called[r]) = 1

\* C8: every request ends in exactly one response of the handler, 200 from a
\* parsed provider reply, 400 from validation or 500 from a caught failure;
\* a provider is called only after selection and prompt building, and no
\* failure leaves the handler as an unhandled exception.
C8_EveryRequestHandled ==
    \A r \in Requests :
        /\ called[r] # <<>> => (Selected(r) /\ chain[r] # NoChain)
        /\ pc[r] = "done" =>
             /\ response[r].by = "handler"
             /\ response[r].status \in {200, 400, 500}
             /\ response[r].status = 200 => (called[r] # <<>> /\ ~reply[r].raised)
             /\ response[r].status = 400 => ~Selected(r)
             /\ response[r].status = 500 => Selected(r)
        /\ pc[r] # "done" => response[r] = NoResponse

\* C9: selection never ends without a provider: past the selection step the
\* chain is a pipeline for exactly one of the three providers, and the
\* "No LLM provider is configured" response is never produced.
C9_AlwaysAProvider ==
    \A r \in Requests :
        /\ Selected(r) => provider[r] \in Providers
        /\ pc[r] = "selected" =>
             /\ chain[r] # NoChain
             /\ chain[r].llm \in Providers
        /\ response[r].error # NoProviderMessage

\* Neither key is usable (one is the empty string, one is unset) and the
\* request holds a chain for the local provider.
C9_Witness ==
    \E r \in Requests :
        /\ config.OPENROUTER_API_KEY = ""
        /\ config.GEMINI_API_KEY = None
        /\ pc[r] = "selected"
        /\ chain[r].llm = "Ollama"

\* What a request holds: its locals, its calls and its response.
Frame(r) ==
    << data[r], word[r], foreign_language[r], provider[r], model_name_in_use[r],
       chain[r], reply[r], called[r], response[r] >>

\* C10: no step writes the configuration, a step of one request leaves every
\* other request's locals, calls and response as they were, and two requests
\* with the same body and the same provider reply end with the same provider,
\* model and response.
C10_NoInterference ==
    /\ [][ /\ config' = config
           /\ \A r \in Requests : pc'[r] = pc[r] => Frame(r)' = Frame(r) ]_vars
    /\ [](\A r1, r2 \in Requests :
            (pc[r1] = "done" /\ pc[r2] = "done"
               /\ data[r1] = data[r2] /\ reply[r1] = reply[r2]) =>
                 /\ provider[r1] = provider[r2]
                 /\ model_name_in_use[r1] = model_name_in_use[r2]
                 /\ response[r1] = response[r2])

\* Two requests ran side by side with different replies: one got 200, the
\* other 500, each naming the same selected provider.
C10_Witness ==
    \E r1, r2 \in Requests :
        /\ r1 # r2
        /\ response[r1].status = 200
        /\ response[r2].status = 500
        /\ called[r1] # <<>>
        /\ called[r2] # <<>>
        /\ provider[r1] = provider[r2]

====
